---- MODULE Spec2Model ----
(***************************************************************************)
(* dkarchiver: search of members inside zip / 7z containers                *)
(* (src/dkarchiver/search_in_archive.py).                                  *)
(*                                                                         *)
(* Python strings (member names, requested names, callback names, file     *)
(* names on disk) are sequences of one-character strings, so that          *)
(* endswith, lower, basename and splitext are computed, not assumed.       *)
(* Byte strings are values [fmt, id, members]: fmt is the format the bytes  *)
(* were written in, members is the listing of a container. A 7z also has   *)
(* its length and whether it was written without compression.              *)
(* An optional value is None (<<>>) or Some(v) (<<v>>).                    *)
(* The characters of names are those of the ASCII block and of the Latin-1 *)
(* block from U+00A0 on.                                                   *)
(***************************************************************************)
EXTENDS Integers, Sequences, FiniteSets, TLC

VARIABLES
    pc,         \* "idle", "running", "returned" or "raised"
    args,       \* the arguments of the running call of search_file_in_archive
    hint,       \* media type reported for each byte source of this call
    results,    \* the results dict shared by all recursion levels
    found_set,  \* the found_set shared by all recursion levels
    stack,      \* open archive handles with their loop position, innermost last
    fs,         \* directories of the file system: directory -> (file name -> bytes)
    ret,        \* None, or Some(the dict the call returned)
    exc,        \* "None", or the exception the call raised
    reads,      \* the member reads done so far, in order
    calls       \* the callback evaluations done so far, in order

vars == <<pc, args, hint, results, found_set, stack, fs, ret, exc, reads, calls>>

-----------------------------------------------------------------------------
\* Bounds of the model.

\* Longest member listing of the generated top-level zip containers.
MaxMembers == 3

-----------------------------------------------------------------------------
\* Optional values and small helpers.

None == <<>>
Some(v) == <<v>>
NoFiles == <<>>

\* Python truthiness of an optional list: neither None nor empty.
Truthy(opt) == opt # None /\ opt[1] # <<>>

\* The empty dict.
EmptyDict == [k \in {} |-> <<>>]

\* d with d[k] set to v.
DictSet(d, k, v) == [x \in DOMAIN d \cup {k} |-> IF x = k THEN v ELSE d[x]]

\* The sequences over S of length at most n.
SeqsUpTo(S, n) == UNION {[1..k -> S] : k \in 0..n}

-----------------------------------------------------------------------------
\* Strings.

\* The capital letters A-Z with their small letters.
AsciiUpperToLower ==
    [A |-> "a", B |-> "b", C |-> "c", D |-> "d", E |-> "e", F |-> "f", G |-> "g",
     H |-> "h", I |-> "i", J |-> "j", K |-> "k", L |-> "l", M |-> "m", N |-> "n",
     O |-> "o", P |-> "p", Q |-> "q", R |-> "r", S |-> "s", T |-> "t", U |-> "u",
     V |-> "v", W |-> "w", X |-> "x", Y |-> "y", Z |-> "z"]

\* The capital letters of the Latin-1 block, and their small letters in the same
\* order.
OtherUpper ==
    <<"À", "Á", "Â", "Ã", "Ä", "Å", "Æ", "Ç", "È", "É", "Ê", "Ë", "Ì", "Í", "Î",
     "Ï", "Ð", "Ñ", "Ò", "Ó", "Ô", "Õ", "Ö", "Ø", "Ù", "Ú", "Û", "Ü", "Ý", "Þ">>

OtherLower ==
    <<"à", "á", "â", "ã", "ä", "å", "æ", "ç", "è", "é", "ê", "ë", "ì", "í", "î",
     "ï", "ð", "ñ", "ò", "ó", "ô", "õ", "ö", "ø", "ù", "ú", "û", "ü", "ý", "þ">>

\* The small letter of every capital letter of the model's alphabet.
UpperToLower ==
    AsciiUpperToLower @@
    [c \in {OtherUpper[i] : i \in 1..Len(OtherUpper)} |->
        OtherLower[CHOOSE i \in 1..Len(OtherUpper) : OtherUpper[i] = c]]

\* The characters of the Latin-1 block above ASCII, U+00A0 to U+00FF.
NonAscii ==
    {" ", "¡", "¢", "£", "¤", "¥", "¦", "§", "¨", "©", "ª", "«", "¬", "­", "®", "¯",
     "°", "±", "²", "³", "´", "µ", "¶", "·", "¸", "¹", "º", "»", "¼", "½", "¾", "¿",
     "À", "Á", "Â", "Ã", "Ä", "Å", "Æ", "Ç", "È", "É", "Ê", "Ë", "Ì", "Í", "Î", "Ï",
     "Ð", "Ñ", "Ò", "Ó", "Ô", "Õ", "Ö", "×", "Ø", "Ù", "Ú", "Û", "Ü", "Ý", "Þ", "ß",
     "à", "á", "â", "ã", "ä", "å", "æ", "ç", "è", "é", "ê", "ë", "ì", "í", "î", "ï",
     "ð", "ñ", "ò", "ó", "ô", "õ", "ö", "÷", "ø", "ù", "ú", "û", "ü", "ý", "þ", "ÿ"}

\* len(s.encode('utf-8')): an ASCII character is one byte, a character of
\* NonAscii two.
utf8_len(s) == Len(s) + Cardinality({i \in 1..Len(s) : s[i] \in NonAscii})

\* str.lower()
str_lower(s) ==
    [i \in 1..Len(s) |-> IF s[i] \in DOMAIN UpperToLower THEN UpperToLower[s[i]] ELSE s[i]]

\* str.endswith(suffix)
str_endswith(s, suffix) ==
    /\ Len(suffix) <= Len(s)
    /\ SubSeq(s, Len(s) - Len(suffix) + 1, Len(s)) = suffix

\* str.rfind(c): the last position of character c in s, 0 when there is none.
str_rfind(s, c) ==
    LET hits == {i \in 1..Len(s) : s[i] = c}
    IN  IF hits = {} THEN 0 ELSE CHOOSE i \in hits : \A j \in hits : j <= i

\* os.path.basename(p): what follows the last separator.
os_path_basename(p) == SubSeq(p, str_rfind(p, "/") + 1, Len(p))

\* os.path.splitext(p): the extension starts at the last dot that follows the
\* last separator, unless only dots precede it in the file name.
os_path_splitext(p) ==
    LET sepIndex == str_rfind(p, "/")
        dotIndex == str_rfind(p, ".")
    IN  IF /\ dotIndex > sepIndex
           /\ \E i \in (sepIndex + 1)..(dotIndex - 1) : p[i] # "."
        THEN <<SubSeq(p, 1, dotIndex - 1), SubSeq(p, dotIndex, Len(p))>>
        ELSE <<p, <<>>>>

DecimalDigit == <<"0", "1", "2", "3", "4", "5", "6", "7", "8", "9">>

\* str(n) for a natural number n.
RECURSIVE int_str(_)
int_str(n) ==
    IF n < 10 THEN <<DecimalDigit[n + 1]>>
    ELSE int_str(n \div 10) \o <<DecimalDigit[(n % 10) + 1]>>

-----------------------------------------------------------------------------
\* File system.

\* os.path.exists(os.path.join(directory, filename)): joined with the empty file
\* name or with "." the path is that of the directory itself, joined with ".."
\* that of its parent.
os_path_exists(files, directory, filename) ==
    /\ directory \in DOMAIN files
    /\ \/ filename \in {<<>>, <<".">>, <<".", ".">>}
       \/ filename \in DOMAIN files[directory]

\* The counter loop of _get_unique_filename: the first of name_counter ext,
\* name_(counter+1) ext, ... that does not exist.
RECURSIVE unique_from(_, _, _, _, _, _)
unique_from(files, directory, name, ext, unique_filename, counter) ==
    IF os_path_exists(files, directory, unique_filename)
    THEN unique_from(files, directory, name, ext,
                     name \o <<"_">> \o int_str(counter) \o ext, counter + 1)
    ELSE unique_filename

\* A slip: the file name is used as it is, whether it exists or not.
get_unique_filename_no_check(files, directory, filename) == filename

\* _get_unique_filename(directory, filename), on the file system files.
_get_unique_filename(files, directory, filename) ==
    LET parts == os_path_splitext(filename)
    IN  unique_from(files, directory, parts[1], parts[2], filename, 1)

\* _match_file_name(target, current, case_sensitive)
_match_file_name(target, current, case_sensitive) ==
    IF case_sensitive
    THEN str_endswith(current, target)
    ELSE str_endswith(str_lower(current), str_lower(target))

-----------------------------------------------------------------------------
\* Byte strings, members and callbacks.

\* Bytes that are no container.
Raw(i) == [fmt |-> "raw", id |-> i, members |-> NoFiles]

\* The bytes of a zip container with the listing ms.
ZipBytes(i, ms) == [fmt |-> "zip", id |-> i, members |-> ms]

\* The n bytes of a 7z container with the listing ms, written with compression:
\* the members' bytes are not readable in it. (The length of a 7z depends on its
\* writer and is given with the bytes.)
SevenZipBytes(i, n, ms) ==
    [fmt |-> "7z", id |-> i, members |-> ms, length |-> n, stored |-> FALSE]

\* The n bytes of a 7z container with the listing ms, written without
\* compression: the members' bytes stand in it as they are, before its header.
StoredSevenZipBytes(i, n, ms) ==
    [fmt |-> "7z", id |-> i, members |-> ms, length |-> n, stored |-> TRUE]

\* The bytes that the entries ms take in a zip container: per entry a local
\* header of 30 bytes and a central directory record of 46 bytes, each followed
\* by the entry's name in UTF-8, and the stored data.
RECURSIVE ZipEntriesSize(_)
ZipEntriesSize(ms) ==
    IF ms = <<>> THEN 0
    ELSE 76 + 2 * utf8_len(Head(ms).filename) + Head(ms).file_size
             + ZipEntriesSize(Tail(ms))

\* len(data), the uncompressed size of a member holding data: Raw(i) is i bytes
\* long; a zip ends with an end-of-central-directory record of 22 bytes.
SizeOf(data) ==
    IF data.fmt = "raw" THEN data.id
    ELSE IF data.fmt = "zip" THEN 22 + ZipEntriesSize(data.members)
    ELSE data.length

\* zipfile.ZipInfo: a directory is a member whose name ends with "/".
ZipInfo(filename, data) ==
    [filename |-> filename, file_size |-> SizeOf(data), date_time |-> <<1980, 1, 1>>,
     data |-> data]

\* py7zr FileInfo: no file_size and no date_time attribute.
FileInfo(filename, is_directory, data) ==
    [filename |-> filename, uncompressed |-> SizeOf(data), creationtime |-> <<2020, 1, 1>>,
     is_directory |-> is_directory, data |-> data]

\* The bytes that the data of the members ms take in a 7z written without
\* compression.
RECURSIVE StoredDataSize(_)
StoredDataSize(ms) ==
    IF ms = <<>> THEN 0 ELSE Head(ms).uncompressed + StoredDataSize(Tail(ms))

\* The number of bytes that follow the last end-of-central-directory record in
\* the bytes, -1 when they hold none. A zip ends with its record. A 7z written
\* without compression is its signature header of 32 bytes, the data of its
\* members in the order of the listing, and its header: the record is that of
\* the last member that holds one.
RECURSIVE EndRecordTail(_)

\* The positions of the members of a 7z written without compression whose
\* bytes hold an end-of-central-directory record.
EndRecordMembers(file_object) ==
    {i \in 1..Len(file_object.members) :
        /\ ~file_object.members[i].is_directory
        /\ EndRecordTail(file_object.members[i].data) >= 0}

EndRecordTail(file_object) ==
    IF file_object.fmt = "zip" THEN 0
    ELSE IF file_object.fmt = "7z" /\ file_object.stored /\ EndRecordMembers(file_object) # {}
    THEN LET ms == file_object.members
             last == CHOOSE i \in EndRecordMembers(file_object) :
                         \A j \in EndRecordMembers(file_object) : j <= i
         IN  EndRecordTail(ms[last].data) + StoredDataSize(SubSeq(ms, last + 1, Len(ms)))
                 + (file_object.length - 32 - StoredDataSize(ms))
    ELSE -1

\* zipfile looks for the end-of-central-directory record (22 bytes) in the last
\* 2^16 + 22 bytes.
MaxEndRecordTail == 65536

\* zips.is_zip_zipfile(file_object): zipfile.ZipFile opens the bytes. It looks for
\* the last end-of-central-directory record in the tail of the bytes, whatever
\* leads them: that of a zip, or that of the last zip that stands in a 7z
\* written without compression.
is_zip_zipfile(file_object) ==
    EndRecordTail(file_object) >= 0 /\ EndRecordTail(file_object) <= MaxEndRecordTail

\* ZipFile(file_object).infolist(): the listing that belongs to the end record
\* found by is_zip_zipfile.
RECURSIVE infolist(_)
infolist(file_object) ==
    IF file_object.fmt = "zip" THEN file_object.members
    ELSE LET last == CHOOSE i \in EndRecordMembers(file_object) :
                         \A j \in EndRecordMembers(file_object) : j <= i
         IN  infolist(file_object.members[last].data)

\* sevenzs.is_7z_magic_number(file_object): the 7z signature leads the bytes.
is_7z_magic_number(file_object) == file_object.fmt = "7z"

\* file_types.get_mime_type(file_object): the media type reported for the bytes.
get_mime_type(file_object) == hint[file_object]

SUPPORTED_ARCHIVE_MIMES ==
    {"application/x-7z-compressed", "application/zip", "application/x-dosexec",
     "application/octet-stream", "application/vnd.microsoft.portable-executable"}

\* A callback: its __name__, the class name of its __self__ (empty for a plain
\* function), and what it returns: value on the bytes whose id is in on, 0 (falsy)
\* on all others.
Callback(owner, name, on, value) == [owner |-> owner, name |-> name, on |-> on, value |-> value]

\* callback(archived_file_bytes)
CallbackResult(callback, archived_file_bytes) ==
    IF archived_file_bytes.id \in callback.on THEN callback.value ELSE 0

\* _get_callback_name(callback)
_get_callback_name(callback) ==
    IF callback.owner # <<>>
    THEN callback.owner \o <<".">> \o callback.name
    ELSE callback.name

\* _get_archive_type(file_object): "zip", "7z", "None" (returned None) or
\* "UnknownArchiveType" (raised).
_get_archive_type(file_object) ==
    IF get_mime_type(file_object) \notin SUPPORTED_ARCHIVE_MIMES THEN "None"
    ELSE IF is_zip_zipfile(file_object) THEN "zip"
    ELSE IF is_7z_magic_number(file_object) THEN "7z"
    ELSE "UnknownArchiveType"

\* Skip directories (lines 176 and 183).
IsDirectory(archive_type, item) ==
    IF archive_type = "zip" THEN str_endswith(item.filename, <<"/">>) ELSE item.is_directory

-----------------------------------------------------------------------------
\* The matchers and the extraction (pure: they return the values they leave in
\* the dict, the set and the file system they were handed).

\* The values of the results dict. Under a member name: the list of file_info
\* dicts (kind "list"). Under a callback name: the dict with the keys 'files' and
\* 'callable_result' (kind "dict").
NameEntry(files) == [kind |-> "list", files |-> files, callable_result |-> 0]
CallbackEntry(files, callable_result) ==
    [kind |-> "dict", files |-> files, callable_result |-> callable_result]

\* Python truthiness of a value of the results dict: a list when it is not empty,
\* a dict with keys always.
ValueTruthy(value) == value.kind = "dict" \/ value.files # <<>>

\* The file_info dict of a match (lines 120-135 and 149-154).
ZipFileInfoDict(item, archived_file_bytes) ==
    [bytes |-> archived_file_bytes, name |-> item.filename,
     size |-> item.file_size, modified_time |-> item.date_time]

SevenZipFileInfoDict(item, archived_file_bytes) ==
    [bytes |-> archived_file_bytes, name |-> item.filename,
     size |-> item.uncompressed, modified_time |-> item.creationtime]

\* The dict that lines 117-118 put under a callback name: 'files' is empty and
\* there is no 'callable_result' yet.
NewCallbackEntry == [kind |-> "dict", files |-> <<>>]

\* Lines 116-140: the callback at position i was truthy with callback_result.
\* raised is "None", or the exception that ends the call: UnknownArchiveType of
\* line 135, AttributeError when the item lacks the attributes its archive type
\* is read by (lines 124-125, 131-132), TypeError of line 137 when the callback's
\* name is already a key that holds the list of a name match.
RecordCallbackMatch(i, item, archive_type, archived_file_bytes, callback_functions, res, found, return_first_only, callback_result) ==
    LET key == _get_callback_name(callback_functions[i])
        initialised == IF key \in DOMAIN res THEN res ELSE DictSet(res, key, NewCallbackEntry)
        attributes == IF archive_type = "zip" THEN {"file_size", "date_time"}
                      ELSE {"uncompressed", "creationtime"}
    IN  IF archive_type \notin {"zip", "7z"}
        THEN [raised |-> "UnknownArchiveType", results |-> initialised, found_set |-> found]
        ELSE IF ~(attributes \subseteq DOMAIN item)
        THEN [raised |-> "AttributeError", results |-> initialised, found_set |-> found]
        ELSE IF initialised[key].kind = "list"
        THEN [raised |-> "TypeError", results |-> initialised, found_set |-> found]
        ELSE LET file_info == IF archive_type = "zip"
                              THEN ZipFileInfoDict(item, archived_file_bytes)
                              ELSE SevenZipFileInfoDict(item, archived_file_bytes)
             IN  [raised |-> "None",
                  results |-> DictSet(initialised, key,
                      CallbackEntry(Append(initialised[key].files, file_info), callback_result)),
                  found_set |-> IF return_first_only THEN found \cup {item.filename}
                                ELSE found]

\* The loop of _handle_callback_matching from the callback at position i on.
RECURSIVE callback_loop(_, _, _, _, _, _, _, _)
callback_loop(i, item, archive_type, archived_file_bytes, callback_functions, res, found, return_first_only) ==
    IF i > Len(callback_functions)
    THEN [raised |-> "None", matched |-> FALSE, evaluated |-> Len(callback_functions),
          results |-> res, found_set |-> found]
    ELSE LET callback_result == CallbackResult(callback_functions[i], archived_file_bytes)
         IN  IF callback_result # 0
             THEN LET rec == RecordCallbackMatch(i, item, archive_type, archived_file_bytes,
                                 callback_functions, res, found, return_first_only,
                                 callback_result)
                  IN  [raised |-> rec.raised, matched |-> rec.raised = "None", evaluated |-> i,
                       results |-> rec.results, found_set |-> rec.found_set]
             ELSE callback_loop(i + 1, item, archive_type, archived_file_bytes,
                                callback_functions, res, found, return_first_only)

\* _handle_callback_matching: matched is its return value, evaluated the number of
\* callbacks it called, raised the exception it ended with ("None": it returned).
_handle_callback_matching(item, archive_type, archived_file_bytes, callback_functions, res, found, return_first_only) ==
    callback_loop(1, item, archive_type, archived_file_bytes, callback_functions,
                  res, found, return_first_only)

\* _handle_name_matching: raised is "AttributeError" when the item has no
\* file_size or date_time (lines 152-153, after line 148 has created a missing
\* key) and when the key holds the dict of a callback match, which has no append
\* (line 155); "None" otherwise.
_handle_name_matching(item, archived_file_bytes, file_names, case_sensitive, res, found, return_first_only) ==
    IF \E i \in 1..Len(file_names) :
           _match_file_name(file_names[i], item.filename, case_sensitive)
    THEN LET key == item.filename
             initialised == IF key \in DOMAIN res THEN res ELSE DictSet(res, key, NameEntry(<<>>))
         IN  IF ~({"file_size", "date_time"} \subseteq DOMAIN item)
             THEN [raised |-> "AttributeError", results |-> initialised, found_set |-> found]
             ELSE IF initialised[key].kind = "dict"
             THEN [raised |-> "AttributeError", results |-> initialised, found_set |-> found]
             ELSE [raised |-> "None",
                   results |-> DictSet(initialised, key,
                       NameEntry(Append(initialised[key].files,
                                        ZipFileInfoDict(item, archived_file_bytes)))),
                   found_set |-> IF return_first_only THEN found \cup {item.filename}
                                 ELSE found]
    ELSE [raised |-> "None", results |-> res, found_set |-> found]

\* _handle_file_extraction: nothing is written for a falsy extract_file_to_path
\* (None, written "None", or the empty string); open(..., 'wb') raises an OSError
\* (FileNotFoundError) when the directory does not exist.
_handle_file_extraction(files, item, extract_file_to_path, archived_file_bytes) ==
    IF extract_file_to_path \in {"None", ""}
    THEN [raised |-> "None", fs |-> files]
    ELSE LET unique_filename == _get_unique_filename(files, extract_file_to_path,
                                    os_path_basename(item.filename))
         IN  IF extract_file_to_path \notin DOMAIN files
             THEN [raised |-> "OSError", fs |-> files]
             ELSE [raised |-> "None",
                   fs |-> [files EXCEPT ![extract_file_to_path] =
                               DictSet(@, unique_filename, archived_file_bytes)]]

\* Line 205: file_names is not None and len(found_set) == len(file_names).
HaltTest(file_names, found) ==
    file_names # None /\ Cardinality(found) = Len(file_names[1])

\* Lines 315-317: the keys with empty values are dropped.
FilterResults(res, return_empty_list_per_file_name) ==
    IF return_empty_list_per_file_name THEN res
    ELSE [k \in {x \in DOMAIN res : ValueTruthy(res[x])} |-> res[k]]

-----------------------------------------------------------------------------
\* The inputs of the model: containers, callbacks and argument lists.

XA == <<"x", "/", "a", ".", "t">>
YA == <<"y", "/", "a", ".", "t">>
NA == <<"n", "/", "a", ".", "t">>
NUpperA == <<"n", "/", "A", ".", "T">>
AT == <<"a", ".", "t">>
BT == <<"b", ".", "t">>
CT == <<"c", ".", "t">>

\* A zip held inside other containers: two members, one in upper case.
InnerZip == ZipBytes(10, <<ZipInfo(NUpperA, Raw(1)), ZipInfo(NA, Raw(2))>>)

\* A 7z held inside other containers: a directory and a file below it.
InnerSevenZip ==
    SevenZipBytes(20, 164, <<FileInfo(<<"n">>, TRUE, Raw(0)), FileInfo(NA, FALSE, Raw(1))>>)

\* A zip that holds a zip.
DeepZip == ZipBytes(11, <<ZipInfo(<<"i", ".", "z">>, InnerZip), ZipInfo(CT, Raw(3))>>)

\* A zip container whose media type is reported as a Java archive.
JarBytes == ZipBytes(12, <<ZipInfo(NA, Raw(2))>>)

\* The listing of the 7z sources: a directory, two nested zips, two files.
SevenZipListing ==
    <<FileInfo(<<"d">>, TRUE, Raw(0)),
      FileInfo(<<"l", ".", "z">>, FALSE, JarBytes),
      FileInfo(<<"m", ".", "z">>, FALSE, DeepZip),
      FileInfo(XA, FALSE, Raw(1)),
      FileInfo(BT, FALSE, Raw(3))>>

\* A 7z source written with compression, and one with the same listing written
\* without.
TopSevenZip == SevenZipBytes(30, 368, SevenZipListing)
StoredSevenZip == StoredSevenZipBytes(31, 794, SevenZipListing)

\* The members the generated zip sources are listed from.
MemberPool ==
    {ZipInfo(XA, Raw(1)), ZipInfo(YA, Raw(2)), ZipInfo(BT, Raw(3)),
     ZipInfo(<<"d", "/">>, Raw(0)), ZipInfo(<<"i", ".", "z">>, InnerZip)}

\* A zip source that holds a 7z, a zip and a file.
MixedZip ==
    ZipBytes(13, <<ZipInfo(<<"j", ".", "7">>, InnerSevenZip),
                   ZipInfo(<<"i", ".", "z">>, InnerZip), ZipInfo(XA, Raw(1))>>)

\* Zip sources with a member named like the callback p1: listed before, and
\* after, a member on which p1 is truthy.
NamedLikeCallbackFirst ==
    ZipBytes(14, <<ZipInfo(<<"p", "1">>, Raw(3)), ZipInfo(XA, Raw(1))>>)
NamedLikeCallbackLast ==
    ZipBytes(15, <<ZipInfo(XA, Raw(1)), ZipInfo(<<"p", "1">>, Raw(3))>>)

\* A zip source with two members whose name is empty.
EmptyNamesZip ==
    ZipBytes(16, <<ZipInfo(<<>>, Raw(1)), ZipInfo(BT, Raw(3)), ZipInfo(<<>>, Raw(2))>>)

GeneratedZips == {ZipBytes(0, ms) : ms \in SeqsUpTo(MemberPool, MaxMembers)}

\* The media types reported for the containers when they are met as members.
NestedHints ==
    (InnerZip :> "application/zip") @@ (DeepZip :> "application/zip") @@
    (InnerSevenZip :> "application/x-7z-compressed") @@
    (JarBytes :> "application/java-archive")

\* The sources a call is given, each with the media type reported for it.
Sources ==
    {<<z, "application/zip">> : z \in GeneratedZips} \cup
    {<<TopSevenZip, "application/x-7z-compressed">>,
     <<StoredSevenZip, "application/x-7z-compressed">>, <<MixedZip, "application/zip">>,
     <<NamedLikeCallbackFirst, "application/zip">>,
     <<NamedLikeCallbackLast, "application/zip">>, <<EmptyNamesZip, "application/zip">>,
     <<JarBytes, "application/zip">>, <<JarBytes, "application/java-archive">>,
     <<Raw(1), "text/plain">>, <<Raw(1), "application/octet-stream">>}

\* A plain function p1, truthy on the bytes 1, and a bound method C.p2, truthy on
\* the bytes 1 and 2.
P1 == Callback(<<>>, <<"p", "1">>, {1}, 1)
P2 == Callback(<<"C">>, <<"p", "2">>, {1, 2}, 2)

\* Two file names, a file name with the suffix of the nested zips, and the name
\* of the callback p1.
TwoNames == Some(<<AT, BT>>)
NameAndSuffix == Some(<<AT, <<"z">>>>)
CallbackNamed == Some(<<<<"p", "1">>>>)

NamesChoices == {None, Some(<<>>), TwoNames, NameAndSuffix, CallbackNamed}
CallbacksChoices == {None, Some(<<>>), Some(<<P1, P2>>)}

\* The argument lists of the calls. An argument that no line of the call would
\* read is left at its default: case_sensitive without names to match,
\* extract_file_to_path without callbacks. The list with the container suffix is
\* searched recursively and for first matches only; the name of the callback is
\* searched in the sources that hold a member of that name.
ArgChoices ==
    {a \in [file_object : {src[1] : src \in Sources},
            file_names_to_search : NamesChoices,
            case_sensitive : BOOLEAN,
            return_first_only : BOOLEAN,
            return_empty_list_per_file_name : BOOLEAN,
            recursive : BOOLEAN,
            callback_functions : CallbacksChoices,
            extract_file_to_path : {"None", "", "out", "missing"}] :
        /\ Truthy(a.file_names_to_search) \/ a.case_sensitive
        /\ Truthy(a.callback_functions) \/ a.extract_file_to_path = "None"
        /\ a.file_names_to_search = NameAndSuffix => a.recursive /\ a.return_first_only
        /\ a.file_names_to_search = CallbackNamed =>
               a.file_object \in {NamedLikeCallbackFirst, NamedLikeCallbackLast}}

\* The media types that may be reported for the source file_object.
HintChoices(file_object) == {src[2] : src \in {x \in Sources : x[1] = file_object}}

\* The directory "out" exists and holds one file; no directory "missing" exists.
InitialFiles == (BT :> Raw(0))

-----------------------------------------------------------------------------
\* The state machine.

Init ==
    /\ pc = "idle"
    /\ args = [file_object |-> Raw(0), file_names_to_search |-> None,
               case_sensitive |-> TRUE, return_first_only |-> FALSE,
               return_empty_list_per_file_name |-> FALSE, recursive |-> FALSE,
               callback_functions |-> None, extract_file_to_path |-> "None"]
    /\ hint = NestedHints
    /\ results = EmptyDict
    /\ found_set = {}
    /\ stack = <<>>
    /\ fs = ("out" :> InitialFiles)
    /\ ret = None
    /\ exc = "None"
    /\ reads = <<>>
    /\ calls = <<>>

\* An open archive handle (the with blocks of _search_archive_content) with the
\* state of the loop of _search_in_archive over it.
Frame(archive_type, file_object) ==
    [archive_type |-> archive_type,
     file_info_list |-> IF archive_type = "zip" THEN infolist(file_object)
                        ELSE file_object.members,
     item_index |-> 1, broke |-> FALSE]

Top == stack[Len(stack)]
TopItem == Top.file_info_list[Top.item_index]
LoopRunning(frame) == ~frame.broke /\ frame.item_index <= Len(frame.file_info_list)

\* stack with the loop of its innermost frame past the current item: left by the
\* break of line 206 when the test of line 205 holds, at the next item otherwise.
AfterItem(found) ==
    [stack EXCEPT ![Len(stack)] =
        IF HaltTest(args.file_names_to_search, found)
        THEN [@ EXCEPT !.broke = TRUE]
        ELSE [@ EXCEPT !.item_index = @ + 1]]

\* A slip: the archives are opened without with blocks, so that an exception
\* leaves the handles it passes open.
RaiseLeavingHandlesOpen(exception) ==
    /\ pc' = "raised"
    /\ exc' = exception
    /\ stack' = stack
    /\ ret' = None

\* An exception leaves every with block: all handles are closed, nothing is returned.
Raise(exception) ==
    /\ pc' = "raised"
    /\ exc' = exception
    /\ stack' = <<>>
    /\ ret' = None


\* search_file_in_archive up to the first member: the check of the arguments
\* (lines 304-305), _search_archive_content on the source (lines 247-272) and,
\* when no archive is opened, the return of lines 315-319.
Call ==
    /\ pc = "idle"
    /\ \E a \in ArgChoices : \E h \in HintChoices(a.file_object) :
        /\ args' = a
        /\ hint' = (a.file_object :> h) @@ NestedHints
        /\ results' = EmptyDict
        /\ found_set' = {}
        /\ UNCHANGED <<fs, reads, calls>>
        /\ IF a.file_names_to_search = None /\ a.callback_functions = None
           THEN Raise("ValueError")
           ELSE LET archive_type == _get_archive_type(a.file_object)'
                IN  CASE archive_type = "UnknownArchiveType" ->
                             Raise("UnknownArchiveType")
                      [] archive_type = "None" ->
                             /\ pc' = "returned"
                             /\ ret' = Some(FilterResults(EmptyDict,
                                            a.return_empty_list_per_file_name))
                             /\ UNCHANGED <<stack, exc>>
                      [] OTHER ->
                             /\ pc' = "running"
                             /\ stack' = <<Frame(archive_type, a.file_object)>>
                             /\ UNCHANGED <<ret, exc>>

\* Lines 176-177 and 183-184: a directory is skipped by continue, which also
\* skips the test of line 205.
SkipDirectory ==
    /\ pc = "running"
    /\ LoopRunning(Top)
    /\ IsDirectory(Top.archive_type, TopItem)
    /\ stack' = [stack EXCEPT ![Len(stack)].item_index = @ + 1]
    /\ UNCHANGED <<pc, args, hint, results, found_set, fs, ret, exc, reads, calls>>

\* The read of the current member (lines 179-180 and 186).
ReadEntry == [level |-> Len(stack), item_index |-> Top.item_index,
              filename |-> TopItem.filename, data |-> TopItem.data]

\* Lines 189-192 on the current member.
CallbackOutcome ==
    IF Truthy(args.callback_functions)
    THEN _handle_callback_matching(TopItem, Top.archive_type, TopItem.data,
             args.callback_functions[1], results, found_set, args.return_first_only)
    ELSE [raised |-> "None", matched |-> FALSE, evaluated |-> 0,
          results |-> results, found_set |-> found_set]

\* The callback evaluations of CallbackOutcome, in order: callback is the position
\* of the callback in callback_functions, read the position in reads of the read
\* that produced the bytes it was given.
CallEntries ==
    [i \in 1..CallbackOutcome.evaluated |-> [callback |-> i, read |-> Len(reads) + 1]]

\* Line 197 holds and _search_archive_content (line 198) finds a type to open.
Descends ==
    /\ CallbackOutcome.raised = "None"
    /\ ~CallbackOutcome.matched
    /\ args.recursive
    /\ is_zip_zipfile(TopItem.data) \/ is_7z_magic_number(TopItem.data)
    /\ _get_archive_type(TopItem.data) \in {"zip", "7z"}

\* Lines 201-206 on the current item of the innermost frame, with the dict and
\* the set as res and found.
NameMatchingAndTest(res, found) ==
    LET nm == IF Truthy(args.file_names_to_search)
              THEN _handle_name_matching(TopItem, TopItem.data,
                       args.file_names_to_search[1], args.case_sensitive,
                       res, found, args.return_first_only)
              ELSE [raised |-> "None", results |-> res, found_set |-> found]
    IN  /\ results' = nm.results
        /\ found_set' = nm.found_set
        /\ IF nm.raised # "None"
           THEN Raise(nm.raised)
           ELSE /\ stack' = AfterItem(nm.found_set)
                /\ UNCHANGED <<pc, ret, exc>>

\* One pass of the loop body (lines 170-206) for a member that is not searched as
\* a nested container.
ProcessMember ==
    /\ pc = "running"
    /\ LoopRunning(Top)
    /\ ~IsDirectory(Top.archive_type, TopItem)
    /\ ~Descends
    /\ reads' = Append(reads, ReadEntry)
    /\ calls' = calls \o CallEntries
    /\ UNCHANGED <<args, hint>>
    /\ IF CallbackOutcome.raised # "None"
       THEN /\ results' = CallbackOutcome.results
            /\ found_set' = CallbackOutcome.found_set
            /\ fs' = fs
            /\ Raise(CallbackOutcome.raised)
       ELSE IF CallbackOutcome.matched
       THEN LET ex == _handle_file_extraction(fs, TopItem, args.extract_file_to_path,
                                              TopItem.data)
            IN  /\ results' = CallbackOutcome.results
                /\ found_set' = CallbackOutcome.found_set
                /\ fs' = ex.fs
                /\ IF ex.raised # "None"
                   THEN Raise(ex.raised)
                   ELSE /\ stack' = AfterItem(CallbackOutcome.found_set)
                        /\ UNCHANGED <<pc, ret, exc>>
       ELSE /\ fs' = fs
            /\ NameMatchingAndTest(CallbackOutcome.results, CallbackOutcome.found_set)

\* Lines 170-200 for a member that is searched as a nested container: it is read,
\* no callback matches it, and _search_archive_content opens it.
EnterNested ==
    /\ pc = "running"
    /\ LoopRunning(Top)
    /\ ~IsDirectory(Top.archive_type, TopItem)
    /\ Descends
    /\ reads' = Append(reads, ReadEntry)
    /\ calls' = calls \o CallEntries
    /\ stack' = Append(stack, Frame(_get_archive_type(TopItem.data), TopItem.data))
    /\ UNCHANGED <<pc, args, hint, results, found_set, fs, ret, exc>>

\* The loop over a nested container is over: its handle is closed and the pass of
\* the enclosing loop goes on with lines 201-206 on the member that held it.
LeaveNested ==
    /\ pc = "running"
    /\ Len(stack) > 1
    /\ ~LoopRunning(Top)
    /\ LET outer == SubSeq(stack, 1, Len(stack) - 1)
           frame == outer[Len(outer)]
           item == frame.file_info_list[frame.item_index]
           nm == IF Truthy(args.file_names_to_search)
                 THEN _handle_name_matching(item, item.data,
                          args.file_names_to_search[1], args.case_sensitive,
                          results, found_set, args.return_first_only)
                 ELSE [raised |-> "None", results |-> results, found_set |-> found_set]
       IN  /\ results' = nm.results
           /\ found_set' = nm.found_set
           /\ IF nm.raised # "None"
              THEN Raise(nm.raised)
              ELSE /\ stack' = [outer EXCEPT ![Len(outer)] =
                                   IF HaltTest(args.file_names_to_search, nm.found_set)
                                   THEN [@ EXCEPT !.broke = TRUE]
                                   ELSE [@ EXCEPT !.item_index = @ + 1]]
                   /\ UNCHANGED <<pc, ret, exc>>
    /\ UNCHANGED <<args, hint, fs, reads, calls>>

\* The loop over the source is over: its handle is closed and
\* search_file_in_archive returns (lines 315-319).
Return ==
    /\ pc = "running"
    /\ Len(stack) = 1
    /\ ~LoopRunning(Top)
    /\ pc' = "returned"
    /\ stack' = <<>>
    /\ ret' = Some(FilterResults(results, args.return_empty_list_per_file_name))
    /\ UNCHANGED <<args, hint, results, found_set, fs, exc, reads, calls>>

Next ==
    \/ Call
    \/ SkipDirectory
    \/ ProcessMember
    \/ EnterNested
    \/ LeaveNested
    \/ Return

Spec == Init /\ [][Next]_vars

-----------------------------------------------------------------------------
\* Vocabulary of the properties.

Names == args.file_names_to_search[1]
Callbacks == args.callback_functions[1]
Started == pc # "idle"
Ended == pc \in {"returned", "raised"}
Returned == ret[1]

\* The source carries the zip or the 7z signature.
SourceIsContainer ==
    is_zip_zipfile(args.file_object) \/ is_7z_magic_number(args.file_object)

\* The positions <<key, i>> of the file_info dicts of the dict res: under member
\* names, under callback names.
NameRecords(res) ==
    UNION {{<<k, i>> : i \in 1..Len(res[k].files)} : k \in {x \in DOMAIN res : res[x].kind = "list"}}
CallbackRecords(res) ==
    UNION {{<<k, i>> : i \in 1..Len(res[k].files)} : k \in {x \in DOMAIN res : res[x].kind = "dict"}}

\* The match records of res, under member names, for the requested name n.
RecordsFor(res, n) ==
    {p \in NameRecords(res) :
        _match_file_name(n, res[p[1]].files[p[2]].name, args.case_sensitive)}

\* The number of match records of res for the member called filename with the
\* bytes data.
CountIn(res, filename, data) ==
    Cardinality({p \in NameRecords(res) \cup CallbackRecords(res) :
                    /\ res[p[1]].files[p[2]].name = filename
                    /\ res[p[1]].files[p[2]].bytes = data})

\* The member names of a container, at every depth.
RECURSIVE AllFilenames(_)
AllFilenames(bytes) ==
    {bytes.members[i].filename : i \in 1..Len(bytes.members)} \cup
    UNION {AllFilenames(bytes.members[i].data) : i \in 1..Len(bytes.members)}

MatchesSomeName(filename) ==
    \E i \in 1..Len(Names) : _match_file_name(Names[i], filename, args.case_sensitive)

\* The position of the first callback that is truthy on data, 0 when none is.
FirstTruthy(data) ==
    LET hits == {i \in 1..Len(Callbacks) : CallbackResult(Callbacks[i], data) # 0}
    IN  IF hits = {} THEN 0 ELSE CHOOSE i \in hits : \A j \in hits : i <= j

\* The reads of the members on which some callback is truthy, in order.
MatchedReads ==
    IF Truthy(args.callback_functions)
    THEN SelectSeq(reads, LAMBDA e : FirstTruthy(e.data) # 0)
    ELSE <<>>

-----------------------------------------------------------------------------
\* C1: a call with neither names nor callbacks (each None or an empty list) ends
\* with the ValueError of the argument check: no archive is opened, no member is
\* read and nothing is returned.
C1_NoCriteriaIsAnError ==
    (Started /\ ~Truthy(args.file_names_to_search) /\ ~Truthy(args.callback_functions))
        => (pc = "raised" /\ exc = "ValueError" /\ stack = <<>> /\ reads = <<>> /\ ret = None)

\* C2: a call with search criteria on a source that carries neither the zip nor
\* the 7z signature ends with UnknownArchiveType and returns no dict.
C2_UnknownSourceIsAnError ==
    (Started /\ ~SourceIsContainer
        /\ ~(args.file_names_to_search = None /\ args.callback_functions = None))
        => (pc = "raised" /\ exc = "UnknownArchiveType" /\ ret = None)

\* C3: a search by names with return_empty_list_per_file_name on a container in
\* which no member matches a requested name returns a dict that holds every
\* requested name as a key, mapped to an empty list.
C3_EmptyListPerRequestedName ==
    (/\ pc = "returned"
     /\ Truthy(args.file_names_to_search)
     /\ args.return_empty_list_per_file_name
     /\ SourceIsContainer
     /\ \A f \in AllFilenames(args.file_object) : ~MatchesSomeName(f))
        => \A i \in 1..Len(Names) :
               /\ Names[i] \in DOMAIN Returned
               /\ Returned[Names[i]].kind = "list"
               /\ Returned[Names[i]].files = <<>>

\* C4: with return_first_only the returned dict holds at most one match record
\* for each requested name, however many members end with that name.
C4_OneRecordPerRequestedName ==
    (pc = "returned" /\ args.return_first_only /\ Truthy(args.file_names_to_search))
        => \A i \in 1..Len(Names) : Cardinality(RecordsFor(Returned, Names[i])) <= 1

\* C5: in a search by names for first matches only, once every requested name
\* has a match record, no further member is read, in no loop.
C5_NoReadOnceAllNamesFound ==
    [][(/\ pc = "running"
        /\ Truthy(args.file_names_to_search)
        /\ args.return_first_only
        /\ \A i \in 1..Len(Names) : RecordsFor(results, Names[i]) # {})
           => reads' = reads]_vars

\* The members of the containers that the container outer holds, as
\* <<position in outer, position in the inner container>>.
InnerMembers(outer) ==
    UNION {{<<i, j>> : j \in 1..Len(outer.members[i].data.members)} :
               i \in 1..Len(outer.members)}

InnerMember(outer, p) == outer.members[p[1]].data.members[p[2]]

\* C6: in a search by names alone, without return_first_only, of a container whose
\* nested containers hold files only: with recursive the call returns, and for
\* every member of a nested container whose name ends with a requested name the
\* returned dict holds one match record per such member; without recursive the
\* returned dict holds none.
C6_NestedMatchIsReturned ==
    (/\ Ended
     /\ Truthy(args.file_names_to_search)
     /\ ~Truthy(args.callback_functions)
     /\ ~args.return_first_only
     /\ SourceIsContainer
     /\ \A p \in InnerMembers(args.file_object) :
            InnerMember(args.file_object, p).data.fmt = "raw")
        => \A p \in InnerMembers(args.file_object) :
               LET needle == InnerMember(args.file_object, p)
                   same == {q \in InnerMembers(args.file_object) :
                               /\ InnerMember(args.file_object, q).filename = needle.filename
                               /\ InnerMember(args.file_object, q).data = needle.data}
               IN  MatchesSomeName(needle.filename) =>
                       IF args.recursive
                       THEN /\ pc = "returned"
                            /\ CountIn(Returned, needle.filename, needle.data)
                                   = Cardinality(same)
                       ELSE pc = "returned" =>
                                CountIn(Returned, needle.filename, needle.data) = 0

\* C7: callbacks are evaluated on a member in their order, from the first one, and
\* none is evaluated after a truthy one; the member is recorded under the name of
\* its first truthy callback and nowhere else: each callback key holds, in order,
\* the members whose first truthy callback has that name, with the return value of
\* the last of them (a key without such members holds no callback records), and
\* no member with a truthy callback is under a name key.
C7_FirstTruthyCallbackWins ==
    Truthy(args.callback_functions) =>
        /\ \A j \in 1..Len(calls) :
               /\ IF j > 1 /\ calls[j - 1].read = calls[j].read
                  THEN calls[j].callback = calls[j - 1].callback + 1
                  ELSE calls[j].callback = 1
               /\ \A i \in 1..(calls[j].callback - 1) :
                      CallbackResult(Callbacks[i], reads[calls[j].read].data) = 0
        /\ \A c \in 1..Len(Callbacks) :
               LET key == _get_callback_name(Callbacks[c])
                   won == SelectSeq(MatchedReads, LAMBDA e :
                              _get_callback_name(Callbacks[FirstTruthy(e.data)]) = key)
               IN  IF won = <<>>
                   THEN key \in DOMAIN results => results[key].kind = "list"
                   ELSE /\ key \in DOMAIN results
                        /\ results[key].kind = "dict"
                        /\ Len(results[key].files) = Len(won)
                        /\ \A i \in 1..Len(won) :
                               /\ results[key].files[i].name = won[i].filename
                               /\ results[key].files[i].bytes = won[i].data
                        /\ results[key].callable_result =
                               CallbackResult(Callbacks[FirstTruthy(won[Len(won)].data)],
                                              won[Len(won)].data)
        /\ \A p \in NameRecords(results) :
               FirstTruthy(results[p[1]].files[p[2]].bytes) = 0

\* C8: a failed write of an extracted member does not end the search: no call
\* ends by the OSError of the write.
C8_WriteFailureDoesNotAbort ==
    ~(pc = "raised" /\ exc = "OSError")

\* C9: a source that carries the zip or the 7z signature is classified by its
\* bytes, whatever media type is reported for it.
C9_ClassifiedByBytesAlone ==
    (Started /\ SourceIsContainer)
        => _get_archive_type(args.file_object) =
               (IF is_zip_zipfile(args.file_object) THEN "zip" ELSE "7z")

\* base with the number k before its extension.
Numbered(base, k) ==
    os_path_splitext(base)[1] \o <<"_">> \o int_str(k) \o os_path_splitext(base)[2]

\* The reads of the members that were handed to _handle_file_extraction, in
\* order: those with a truthy callback, but for the one whose recording raised.
ExtractedReads ==
    IF exc = "TypeError" THEN SubSeq(MatchedReads, 1, Len(MatchedReads) - 1)
    ELSE MatchedReads

\* The file name of the j-th extracted member: its base name when it is free,
\* else the base name with the first free number. (The empty base name is the
\* path of the directory, which is never free.)
ExpectedFilename(j) ==
    LET base == os_path_basename(ExtractedReads[j].filename)
        rank == Cardinality({i \in 1..j :
                    os_path_basename(ExtractedReads[i].filename) = base})
    IN  IF base \in DOMAIN InitialFiles \/ base = <<>> THEN Numbered(base, rank)
        ELSE IF rank = 1 THEN base
        ELSE Numbered(base, rank - 1)

\* C10: every member extracted into the existing directory has a file of its own:
\* the directory holds one file more per extracted member, each member's bytes
\* are under its base name or, when that is taken, under the base name with the
\* first free number, and the files that were there keep their content.
C10_ExtractionNeverOverwrites ==
    (Started /\ args.extract_file_to_path = "out") =>
        /\ Cardinality(DOMAIN fs["out"]) =
               Cardinality(DOMAIN InitialFiles) + Len(ExtractedReads)
        /\ \A f \in DOMAIN InitialFiles :
               f \in DOMAIN fs["out"] /\ fs["out"][f] = InitialFiles[f]
        /\ \A j \in 1..Len(ExtractedReads) :
               /\ ExpectedFilename(j) \in DOMAIN fs["out"]
               /\ fs["out"][ExpectedFilename(j)] = ExtractedReads[j].data

\* C10 witness: two extracted members with the same base name, the second under
\* the base name with the number 1.
C10_CollisionExtracted ==
    /\ pc = "returned"
    /\ args.extract_file_to_path = "out"
    /\ \E i, j \in 1..Len(MatchedReads) :
           /\ i < j
           /\ os_path_basename(MatchedReads[i].filename) = AT
           /\ os_path_basename(MatchedReads[j].filename) = AT
    /\ {AT, <<"a", "_", "1", ".", "t">>} \subseteq DOMAIN fs["out"]

\* The read that ended the call was done in a nested container.
LastReadIsNested == reads # <<>> /\ reads[Len(reads)].level > 1

\* C11: when search_file_in_archive has returned or raised, no archive handle is
\* open, neither that of the source nor that of a nested container, whether the
\* loops ran to their end, were left by the break, or were left by an exception.
C11_HandlesClosedAtExit ==
    Ended => stack = <<>>

\* C11 witness: a call ended by an exception raised while a member of a nested
\* container was matched or extracted, with two handles open.
C11_RaisedInsideNested ==
    /\ pc = "raised"
    /\ exc \in {"AttributeError", "OSError"}
    /\ LastReadIsNested
    /\ stack = <<>>

\* The member whose bytes are the innermost open container.
Holder == stack[Len(stack) - 1].file_info_list[stack[Len(stack) - 1].item_index]

\* A step that opens a member as a nested container, and a step that closes a
\* nested container and goes on with the loop that enclosed it.
DescentStep == pc = "running" /\ Len(stack') = Len(stack) + 1
LeaveStep == pc = "running" /\ pc' = "running" /\ Len(stack') = Len(stack) - 1

\* C12: a member is opened and searched as a nested container only with
\* recursive, only when it is no directory and no callback is truthy on it, and
\* at most once (the enclosing loop is past it when the nested search is over);
\* such a member is not also recorded as a match, by a callback or by a
\* requested name; and a directory is never read, matched or descended into.
C12_DescentOnlyIntoUnmatched ==
    [][/\ DescentStep =>
              /\ args.recursive
              /\ ~IsDirectory(Top.archive_type, TopItem)
              /\ Truthy(args.callback_functions) => FirstTruthy(TopItem.data) = 0
              /\ SubSeq(stack', 1, Len(stack)) = stack
       /\ LeaveStep =>
              /\ CountIn(results', Holder.filename, Holder.data)
                     = CountIn(results, Holder.filename, Holder.data)
              /\ \/ stack'[Len(stack')].broke
                 \/ stack'[Len(stack')].item_index = stack[Len(stack')].item_index + 1
       /\ (pc = "running" /\ LoopRunning(Top) /\ IsDirectory(Top.archive_type, TopItem)) =>
              /\ <<reads, calls, results, found_set, fs>>' = <<reads, calls, results, found_set, fs>>
              /\ Len(stack') = Len(stack)
      ]_vars

\* C13: in a search with a non-empty list of requested names, found_set never
\* holds more entries than names were requested, so the test of line 205 cannot
\* be stepped over.
C13_FoundSetWithinRequested ==
    (Started /\ Truthy(args.file_names_to_search))
        => Cardinality(found_set) <= Len(Names)

\* The members of the source that are no directories, in the order of its
\* listing, and the reads done in the loop over the source, in order.
SourceFiles ==
    SelectSeq(args.file_object.members,
              LAMBDA m : ~IsDirectory(_get_archive_type(args.file_object), m))
SourceReads == SelectSeq(reads, LAMBDA e : e.level = 1)

\* C14: a search by callbacks alone (names None or an empty list) that opens its
\* source and returns has read every member of the source that is no directory,
\* in the order of the listing, has given each of them to the callbacks, and
\* returns a record for every one of them on which some callback is truthy.
C14_CallbackSearchReadsAll ==
    (/\ pc = "returned"
     /\ Truthy(args.callback_functions)
     /\ ~Truthy(args.file_names_to_search)
     /\ _get_archive_type(args.file_object) \in {"zip", "7z"})
        => /\ Len(SourceReads) = Len(SourceFiles)
           /\ \A i \in 1..Len(SourceReads) :
                  /\ SourceReads[i].filename = SourceFiles[i].filename
                  /\ SourceReads[i].data = SourceFiles[i].data
           /\ \A j \in 1..Len(reads) :
                  reads[j].level = 1 =>
                      \E c \in 1..Len(calls) : calls[c].read = j /\ calls[c].callback = 1
           /\ \A i \in 1..Len(SourceFiles) :
                  FirstTruthy(SourceFiles[i].data) # 0 =>
                      \E p \in CallbackRecords(Returned) :
                          /\ Returned[p[1]].files[p[2]].name = SourceFiles[i].filename
                          /\ Returned[p[1]].files[p[2]].bytes = SourceFiles[i].data

====
